---- MODULE Spec2Model ----
(***************************************************************************)
(* A model of huma:                                                        *)
(*  - conditional requests (package conditional: trimETag, Params.Resolve, *)
(*    Params.HasConditionalParams, Params.PreconditionFailed);             *)
(*  - the required/optional and the nullable resolution of schema fields;  *)
(*  - the validation of an object against its schema;                      *)
(*  - the memoized inference of a shape's schema by concurrent callers;    *)
(*  - humatest's testAPI.Do;                                               *)
(*  - the chi adapter's Handle and Group.                                  *)
(* Each part has its own specification; the variables of the other parts   *)
(* stay at their initial values under it.                                  *)
(*                                                                         *)
(* Strings are sequences of one-character strings, so that trimETag is     *)
(* computed character by character as strings.HasPrefix / strings.Trim do. *)
(* A time.Time is an integer instant; ZeroTime is the instant for which    *)
(* time.Time.IsZero() is true.                                             *)
(***************************************************************************)
EXTENDS Integers, Sequences, FiniteSets, TLC

VARIABLES
    p,          \* the conditional.Params value of the request
    etag,       \* the resource's current ETag, as the caller passes it
    modified,   \* the resource's modification time, as the caller passes it
    pc,         \* "start": PreconditionFailed not called yet; "done": it returned
    ctxErrors,  \* the ErrorDetails added with ctx.AddError, in order
    ctxWritten, \* the responses written to ctx (WriteError / WriteHeader), in order
    ret,        \* PreconditionFailed's return value ("none" before the call)
    failedChecks, \* the checks whose body set failed = true during the call
    sawWrite,   \* some Resolve call so far was given POST, PUT, PATCH or DELETE
    shape,      \* the struct whose schema is being built: a sequence of fields
    schema,     \* the schema built from shape
    spc,        \* "idle": no schema built yet; "built": the schema is built
    vschema,    \* the object schema a value is validated against
    vvalue,     \* the decoded value to validate
    verrors,    \* the ErrorDetails the validation returned, in order
    vpc,        \* "idle": not validated yet; "done": validated
    mcache,     \* the schema cache: per shape, the entry's state and its tree
    mwork,      \* per shape, the tree its builder has assembled so far
    mcallers,   \* per caller of infer: its position, its shape, what it received
    mbuilds,    \* per shape, the number of builds started
    doArgs,     \* the args of the testAPI.Do call, each by its kind
    doResult,   \* how the Do call ended: a panic, or the request it made
    doPc,       \* "idle": Do not called yet; "done": the call ended
    chRoute,    \* chiAdapter.route: "default" (defaultHandler) or "buffer"
    chHandlers, \* chiAdapter.handlers: the buffered operations, in order
    chHandlersNil, \* chiAdapter.handlers == nil
    chRouter,   \* the registrations on the chi router, in order
    chStack,    \* the Group calls whose fn is executing, outermost first
    chHandled,  \* every Handle call so far: the operation and the Group calls then executing
    chNextOp,   \* the next operation to be handled
    chNextGroup, \* the next Group call
    chPanicked  \* some fn has panicked

vars == <<p, etag, modified, pc, ctxErrors, ctxWritten, ret, failedChecks, sawWrite,
          shape, schema, spc, vschema, vvalue, verrors, vpc,
          mcache, mwork, mcallers, mbuilds, doArgs, doResult, doPc,
          chRoute, chHandlers, chHandlersNil, chRouter, chStack, chHandled,
          chNextOp, chNextGroup, chPanicked>>

condVars == <<p, etag, modified, pc, ctxErrors, ctxWritten, ret, failedChecks, sawWrite>>

schemaVars == <<shape, schema, spc>>

validateVars == <<vschema, vvalue, verrors, vpc>>

memoVars == <<mcache, mwork, mcallers, mbuilds>>

\* The variables of the other components, which the conditional-request and
\* schema-inference steps leave alone.
doVars == <<doArgs, doResult, doPc>>

chiVars == <<chRoute, chHandlers, chHandlersNil, chRouter, chStack, chHandled,
             chNextOp, chNextGroup, chPanicked>>

extVars == <<validateVars, memoVars, doVars, chiVars>>

-----------------------------------------------------------------------------
(* Bounds *)

\* The most entity-tag values one request carries, If-Match and If-None-Match together.
MaxTags == 2

\* Instants are 0 .. MaxTime.
MaxTime == 2

\* The most fields of a struct.
MaxFields == 2

-----------------------------------------------------------------------------
(* Strings *)

Q == "\""

S_a == <<"a">>

S_b == <<"b">>

S_Qa == <<Q, "a", Q>>

S_WQa == <<"W", "/", Q, "a", Q>>

S_Star == <<"*">>

S_QQ == <<Q, Q>>

S_Empty == <<>>

\* The values an If-Match / If-None-Match header may list.
HeaderValues == {S_a, S_Qa, S_WQa, S_Star, S_QQ}

\* The ETags a caller may pass for the resource; the empty string: no resource.
ETags == {S_Empty, S_a, S_b, S_Qa}

ZeroTime == 0

Times == 0 .. MaxTime

IsZero(t) == t = ZeroTime

After(t, u) == t > u

Methods == {"GET", "POST", "PUT", "PATCH", "DELETE"}

StatusPreconditionFailed == 412

StatusNotModified == 304

-----------------------------------------------------------------------------
(* trimETag *)

HasPrefix(s, prefix) ==
    /\ Len(s) >= Len(prefix)
    /\ SubSeq(s, 1, Len(prefix)) = prefix

RECURSIVE TrimLeft(_, _)
TrimLeft(s, c) ==
    IF s # <<>> /\ Head(s) = c THEN TrimLeft(Tail(s), c) ELSE s

RECURSIVE TrimRight(_, _)
TrimRight(s, c) ==
    IF s # <<>> /\ s[Len(s)] = c THEN TrimRight(SubSeq(s, 1, Len(s) - 1), c) ELSE s

\* strings.Trim(s, cutset) for a one-character cutset.
Trim(s, c) == TrimRight(TrimLeft(s, c), c)

\* trimETag without the W/ prefix removal.
trimETagNoPrefix(value) == Trim(value, Q)

\* Removes the W/ prefix (of a value longer than the prefix) and the quotes.
trimETag(value) ==
    LET v == IF HasPrefix(value, <<"W", "/">>) /\ Len(value) > 2
             THEN SubSeq(value, 3, Len(value))
             ELSE value
    IN  Trim(v, Q)

-----------------------------------------------------------------------------
(* Params.PreconditionFailed *)

foundMsg(e) ==
    IF e # <<>> THEN <<"found resource with ETag ", e>>
                ELSE <<"found no existing resource">>

\* http.TimeFormat of an instant.
FormatHTTP(t) == <<"http.TimeFormat", t>>

H_INM == "If-None-Match"

H_IM == "If-Match"

H_IMS == "If-Modified-Since"

H_IUS == "If-Unmodified-Since"

Location(header) ==
    CASE header = H_INM -> "request.headers.If-None-Match"
      [] header = H_IM  -> "request.headers.If-Match"
      [] header = H_IMS -> "request.headers.If-Modified-Since"
      [] header = H_IUS -> "request.headers.If-Unmodified-Since"

\* failCheck without the p.isWrite guard.
failCheckAlwaysAddError(st, params, header, detail) ==
    [errors |-> Append(st.errors, detail),
     failed |-> TRUE,
     checks |-> st.checks \cup {header}]

\* The body of a failed check: if p.isWrite { ctx.AddError(detail) }; failed = true.
\* st.checks records which checks' bodies ran.
failCheck(st, params, header, detail) ==
    [errors |-> IF params.isWrite THEN Append(st.errors, detail) ELSE st.errors,
     failed |-> TRUE,
     checks |-> st.checks \cup {header}]

\* noneMatchHit with * matching even when no resource exists.
noneMatchHitAnyStar(trimmed, e) == trimmed = e \/ trimmed = S_Star

\* trimmed == etag || (trimmed == "*" && etag != "")
noneMatchHit(trimmed, e) == trimmed = e \/ (trimmed = S_Star /\ e # <<>>)

\* for _, match := range p.IfNoneMatch { ... }, from index i on.
RECURSIVE noneMatchLoop(_, _, _, _)
noneMatchLoop(st, params, e, i) ==
    IF i > Len(params.IfNoneMatch)
    THEN st
    ELSE LET match == params.IfNoneMatch[i]
             next  == IF noneMatchHit(trimETag(match), e)
                      THEN failCheck(st, params, H_INM,
                             [Message  |-> <<"If-None-Match: ", match,
                                             " precondition failed, ", foundMsg(e)>>,
                              Location |-> Location(H_INM),
                              Value    |-> match])
                      ELSE st
         IN  noneMatchLoop(next, params, e, i + 1)

\* The inner loop of the If-Match check: found, from index i on.
RECURSIVE matchFound(_, _, _)
matchFound(params, e, i) ==
    IF i > Len(params.IfMatch)
    THEN FALSE
    ELSE IF trimETag(params.IfMatch[i]) = e
         THEN TRUE
         ELSE matchFound(params, e, i + 1)

\* ifMatchFails without the len(p.IfMatch) > 0 guard.
ifMatchFailsNoLenGuard(params, e) == ~matchFound(params, e, 1)

\* len(p.IfMatch) > 0, and found is false after the loop.
ifMatchFails(params, e) == Len(params.IfMatch) > 0 /\ ~matchFound(params, e, 1)

\* ifMatchCheck skipped once an earlier check has failed.
ifMatchCheckShortCircuit(st, params, e) ==
    IF ~st.failed /\ ifMatchFails(params, e)
    THEN failCheck(st, params, H_IM,
           [Message  |-> <<"If-Match precondition failed, ", foundMsg(e)>>,
            Location |-> Location(H_IM),
            Value    |-> params.IfMatch])
    ELSE st

ifMatchCheck(st, params, e) ==
    IF ifMatchFails(params, e)
    THEN failCheck(st, params, H_IM,
           [Message  |-> <<"If-Match precondition failed, ", foundMsg(e)>>,
            Location |-> Location(H_IM),
            Value    |-> params.IfMatch])
    ELSE st

\* ifModifiedSinceFails with the comparison turned: equal times pass.
ifModifiedSinceFailsInclusive(params, m) ==
    ~IsZero(params.IfModifiedSince) /\ After(params.IfModifiedSince, m)

\* !p.IfModifiedSince.IsZero() && !modified.After(p.IfModifiedSince)
ifModifiedSinceFails(params, m) ==
    ~IsZero(params.IfModifiedSince) /\ ~After(m, params.IfModifiedSince)

ifModifiedSinceCheck(st, params, m) ==
    IF ifModifiedSinceFails(params, m)
    THEN failCheck(st, params, H_IMS,
           [Message  |-> <<"If-Modified-Since: ", FormatHTTP(params.IfModifiedSince),
                           " precondition failed, resource was modified at ",
                           FormatHTTP(m)>>,
            Location |-> Location(H_IMS),
            Value    |-> FormatHTTP(params.IfModifiedSince)])
    ELSE st

\* ifUnmodifiedSinceFails with the comparison turned: equal times fail.
ifUnmodifiedSinceFailsInclusive(params, m) ==
    ~IsZero(params.IfUnmodifiedSince) /\ ~After(params.IfUnmodifiedSince, m)

\* !p.IfUnmodifiedSince.IsZero() && modified.After(p.IfUnmodifiedSince)
ifUnmodifiedSinceFails(params, m) ==
    ~IsZero(params.IfUnmodifiedSince) /\ After(m, params.IfUnmodifiedSince)

ifUnmodifiedSinceCheck(st, params, m) ==
    IF ifUnmodifiedSinceFails(params, m)
    THEN failCheck(st, params, H_IUS,
           [Message  |-> <<"If-Unmodified-Since: ", FormatHTTP(params.IfUnmodifiedSince),
                           " precondition failed, resource was modified at ",
                           FormatHTTP(m)>>,
            Location |-> Location(H_IUS),
            Value    |-> FormatHTTP(params.IfUnmodifiedSince)])
    ELSE st

\* The four checks in the order of the code, from failed := false.
runChecks(params, e, m) ==
    LET s0 == [errors |-> <<>>, failed |-> FALSE, checks |-> {}]
        s1 == noneMatchLoop(s0, params, e, 1)
        s2 == ifMatchCheck(s1, params, e)
        s3 == ifModifiedSinceCheck(s2, params, m)
        s4 == ifUnmodifiedSinceCheck(s3, params, m)
    IN  s4

\* writeOutcome with the read branch outside the if failed test.
writeOutcomeUnconditional(params, failed) ==
    IF params.isWrite
    THEN IF failed
         THEN <<[op |-> "WriteError", status |-> StatusPreconditionFailed,
                 msg |-> "Precondition Failed"]>>
         ELSE <<>>
    ELSE <<[op |-> "WriteHeader", status |-> StatusNotModified]>>

\* writeOutcome with the two branches of p.isWrite exchanged.
writeOutcomeSwapped(params, failed) ==
    IF failed
    THEN IF params.isWrite
         THEN <<[op |-> "WriteHeader", status |-> StatusNotModified]>>
         ELSE <<[op |-> "WriteError", status |-> StatusPreconditionFailed,
                 msg |-> "Precondition Failed"]>>
    ELSE <<>>

\* if failed { if p.isWrite { WriteError(412) } else { WriteHeader(304) }; return true }
writeOutcome(params, failed) ==
    IF failed
    THEN IF params.isWrite
         THEN <<[op |-> "WriteError", status |-> StatusPreconditionFailed,
                 msg |-> "Precondition Failed"]>>
         ELSE <<[op |-> "WriteHeader", status |-> StatusNotModified]>>
    ELSE <<>>

HasConditionalParams(params) ==
    \/ Len(params.IfMatch) > 0
    \/ Len(params.IfNoneMatch) > 0
    \/ ~IsZero(params.IfModifiedSince)
    \/ ~IsZero(params.IfUnmodifiedSince)

-----------------------------------------------------------------------------
(* The request: construction, Resolve, PreconditionFailed *)

RECURSIVE SeqsUpTo(_, _)
SeqsUpTo(S, n) ==
    IF n = 0 THEN {<<>>}
    ELSE LET shorter == SeqsUpTo(S, n - 1)
         IN  shorter \cup {Append(s, x) : s \in shorter, x \in S}

\* The Params a request binds: any headers, isWrite false until Resolve runs.
InitCond ==
    /\ \E im \in SeqsUpTo(HeaderValues, MaxTags), inm \in SeqsUpTo(HeaderValues, MaxTags),
          ims \in Times, ius \in Times :
          /\ Len(im) + Len(inm) <= MaxTags
          /\ p = [IfMatch |-> im, IfNoneMatch |-> inm,
                  IfModifiedSince |-> ims, IfUnmodifiedSince |-> ius,
                  isWrite |-> FALSE]
    /\ etag \in ETags
    /\ modified \in Times
    /\ pc = "start"
    /\ ctxErrors = <<>>
    /\ ctxWritten = <<>>
    /\ ret = "none"
    /\ failedChecks = {}
    /\ sawWrite = FALSE

\* resolveIsWrite without DELETE among the write methods.
resolveIsWriteNoDelete(method) == method \in {"POST", "PUT", "PATCH"}

\* case http.MethodPost, http.MethodPut, http.MethodPatch, http.MethodDelete
resolveIsWrite(method) == method \in {"POST", "PUT", "PATCH", "DELETE"}

Resolve(method) ==
    /\ pc = "start"
    /\ p' = IF resolveIsWrite(method) THEN [p EXCEPT !.isWrite = TRUE] ELSE p
    /\ sawWrite' = (sawWrite \/ method \in {"POST", "PUT", "PATCH", "DELETE"})
    /\ UNCHANGED <<etag, modified, pc, ctxErrors, ctxWritten, ret, failedChecks, schemaVars,
                   extVars>>

PreconditionFailed ==
    /\ pc = "start"
    /\ LET st == runChecks(p, etag, modified) IN
        /\ ctxErrors' = ctxErrors \o st.errors
        /\ ctxWritten' = ctxWritten \o writeOutcome(p, st.failed)
        /\ ret' = st.failed
        /\ failedChecks' = st.checks
    /\ pc' = "done"
    /\ UNCHANGED <<p, etag, modified, sawWrite, schemaVars, extVars>>

-----------------------------------------------------------------------------
(* Schema inference: required / optional *)

\* The values of a field's `required` tag; "" when the field carries none.
RequiredTags == {"", "true", "false"}

\* A declared field: its json tag's omitempty and "-" (ignored), its
\* `required` tag, and whether its type is a pointer.
Fields ==
    [omitempty : BOOLEAN, required : RequiredTags, pointer : BOOLEAN, ignored : BOOLEAN]

\* fieldRequired with the omitempty rule applied after the required tag.
fieldRequiredOmitemptyLast(f) ==
    LET r1 == TRUE
        r2 == IF f.required = "false" THEN FALSE ELSE r1
        r3 == IF f.required = "true" THEN TRUE ELSE r2
        r4 == IF f.omitempty THEN FALSE ELSE r3
    IN  r4

\* 1. Start with all fields required.  2. omitempty: optional.
\* 3. required:"false": optional.      4. required:"true": required.
fieldRequired(f) ==
    LET r1 == TRUE
        r2 == IF f.omitempty THEN FALSE ELSE r1
        r3 == IF f.required = "false" THEN FALSE ELSE r2
        r4 == IF f.required = "true" THEN TRUE ELSE r3
    IN  r4

\* The schema of a struct, field by field from index i on; a field is named by
\* its place in the declaration.
RECURSIVE buildSchema(_, _, _)
buildSchema(fields, s, i) ==
    IF i > Len(fields)
    THEN s
    ELSE LET f == fields[i] IN
         IF f.ignored
         THEN buildSchema(fields, s, i + 1)
         ELSE buildSchema(fields,
                          [properties |-> Append(s.properties, i),
                           required   |-> IF fieldRequired(f)
                                          THEN s.required \cup {i}
                                          ELSE s.required],
                          i + 1)

emptySchema == [properties |-> <<>>, required |-> {}]

\* The properties of a schema that are not required.
Optional(s) == {s.properties[i] : i \in 1 .. Len(s.properties)} \ s.required

-----------------------------------------------------------------------------
(* Validation of an object against its schema *)

\* The most keys a value carries beyond the two a struct may declare.
MaxExtraKeys == 2

\* The i-th undeclared key: x, xx, ...
ExtraKey(i) == [j \in 1 .. i |-> "x"]

ExtraKeys == {ExtraKey(i) : i \in 1 .. MaxExtraKeys}

\* The fields a struct may declare, in declaration order.
DeclaredFields ==
    <<[name |-> <<"a">>, kind |-> "string"], [name |-> <<"b">>, kind |-> "integer"]>>

DeclaredNames == {DeclaredFields[i].name : i \in 1 .. Len(DeclaredFields)}

\* The order in which the keys of a decoded value are visited: the declared
\* names first, then the undeclared ones by length.
KeyRank(k) ==
    IF k = <<"a">> THEN 0 ELSE IF k = <<"b">> THEN 1 ELSE 1 + Len(k)

RECURSIVE SetToSeq(_)
SetToSeq(S) ==
    IF S = {} THEN <<>>
    ELSE LET k == CHOOSE x \in S : \A y \in S : KeyRank(x) <= KeyRank(y)
         IN  <<k>> \o SetToSeq(S \ {k})

RootPath == <<"b", "o", "d", "y">>

\* path + "." + name
ChildPath(path, name) == path \o <<".">> \o name

\* The schema of a struct that declares the fields `declared` (a subsequence
\* of DeclaredFields), of which `required` are required; marker is the
\* additionalProperties:"true" tag on a dummy _ field, which adds no property.
objectSchema(declared, required, marker) ==
    [kind |-> "object", properties |-> declared, required |-> required,
     additionalProperties |-> marker]

PropertyNames(s) == {s.properties[i].name : i \in 1 .. Len(s.properties)}

\* The declared properties, in declaration order from index i on: a present
\* key is validated against the property's schema, an absent required one is
\* reported.
RECURSIVE validateProperties(_, _, _, _)
validateProperties(s, v, path, i) ==
    IF i > Len(s.properties)
    THEN <<>>
    ELSE LET prop == s.properties[i]
             here == IF prop.name \in DOMAIN v.fields
                     THEN IF v.fields[prop.name] # prop.kind
                          THEN <<[Message  |-> "type-mismatch",
                                  Location |-> ChildPath(path, prop.name),
                                  Value    |-> v.fields[prop.name]]>>
                          ELSE <<>>
                     ELSE IF prop.name \in s.required
                          THEN <<[Message  |-> "missing-required",
                                  Location |-> ChildPath(path, prop.name),
                                  Value    |-> "none"]>>
                          ELSE <<>>
         IN  here \o validateProperties(s, v, path, i + 1)

\* The keys of the value, from index i on: one not among the properties is
\* reported.
RECURSIVE validateUnknown(_, _, _, _, _)
validateUnknown(s, v, path, keys, i) ==
    IF i > Len(keys)
    THEN <<>>
    ELSE (IF keys[i] \notin PropertyNames(s)
          THEN <<[Message  |-> "unknown-field",
                  Location |-> ChildPath(path, keys[i]),
                  Value    |-> v.fields[keys[i]]]>>
          ELSE <<>>)
         \o validateUnknown(s, v, path, keys, i + 1)

\* validate(schema, value, path): a value of another kind is one type
\* mismatch and is not descended into.
\* (validateDeclaredOnly: the same with the value's own keys never looked at.)
validateDeclaredOnly(s, v, path) ==
    IF v.kind # s.kind
    THEN <<[Message |-> "type-mismatch", Location |-> path, Value |-> v.kind]>>
    ELSE validateProperties(s, v, path, 1)

validate(s, v, path) ==
    IF v.kind # s.kind
    THEN <<[Message |-> "type-mismatch", Location |-> path, Value |-> v.kind]>>
    ELSE validateProperties(s, v, path, 1)
         \o (IF s.additionalProperties
             THEN <<>>
             ELSE validateUnknown(s, v, path, SetToSeq(DOMAIN v.fields), 1))

\* The decoded values: a string, or an object with any of the declared and
\* undeclared keys, each holding a string or an integer.
Values ==
    {[kind |-> "string"]}
    \cup {[kind |-> "object", fields |-> f] :
            f \in UNION {[K -> {"string", "integer"}] :
                           K \in SUBSET (DeclaredNames \cup ExtraKeys)}}

\* The subsequences of DeclaredFields.
DeclaredChoices ==
    {<<>>, <<DeclaredFields[1]>>, <<DeclaredFields[2]>>, DeclaredFields}

ValidateIdle ==
    /\ vschema = objectSchema(<<>>, {}, FALSE)
    /\ vvalue = [kind |-> "string"]
    /\ verrors = <<>>
    /\ vpc = "idle"

-----------------------------------------------------------------------------
(* infer: the schema of a shape, memoized by shape identity *)

\* The callers that may call infer at the same time.
MaxCallers == 2

\* The nodes of a shape's schema tree, built one at a time.
TreeSize == 2

\* Builds of one shape are counted up to this many.
MaxBuilds == 2

Callers == 1 .. MaxCallers

Shapes == {"ShapeA", "ShapeB"}

\* The schema tree of shape s, complete.
CompleteTree(s) == [i \in 1 .. TreeSize |-> <<s, i>>]

\* What a caller does on the cache entry it finds: build the tree itself
\* (and mark the entry as being built), wait for the build under way, or take
\* the completed tree.
\* (lookupOutcomeNoWait: the same with an entry being built taken for absent.)
lookupOutcomeNoWait(entryState) ==
    IF entryState = "done" THEN "hit" ELSE "build"

lookupOutcome(entryState) ==
    CASE entryState = "absent"   -> "build"
      [] entryState = "building" -> "wait"
      [] entryState = "done"     -> "hit"

MemoIdle ==
    /\ mcache = [s \in Shapes |-> [state |-> "absent", tree |-> <<>>]]
    /\ mwork = [s \in Shapes |-> <<>>]
    /\ mcallers = [c \in Callers |-> [pc |-> "idle", shape |-> "ShapeA", result |-> <<>>]]
    /\ mbuilds = [s \in Shapes |-> 0]

\* A caller enters infer(s).
InferCall(c, s) ==
    /\ mcallers[c].pc = "idle"
    /\ mcallers' = [mcallers EXCEPT ![c] = [pc |-> "lookup", shape |-> s, result |-> <<>>]]
    /\ UNCHANGED <<mcache, mwork, mbuilds, condVars, schemaVars, validateVars, doVars, chiVars>>

\* The caller consults the cache entry of its shape, in one step.
InferLookup(c) ==
    /\ mcallers[c].pc = "lookup"
    /\ LET s == mcallers[c].shape
           o == lookupOutcome(mcache[s].state)
       IN  \/ /\ o = "build"
              /\ mbuilds[s] < MaxBuilds
              /\ mcache' = [mcache EXCEPT ![s].state = "building"]
              /\ mwork' = [mwork EXCEPT ![s] = <<>>]
              /\ mbuilds' = [mbuilds EXCEPT ![s] = @ + 1]
              /\ mcallers' = [mcallers EXCEPT ![c].pc = "building"]
           \/ /\ o = "wait"
              /\ mcallers' = [mcallers EXCEPT ![c].pc = "waiting"]
              /\ UNCHANGED <<mcache, mwork, mbuilds>>
           \/ /\ o = "hit"
              /\ mcallers' = [mcallers EXCEPT ![c].pc = "returned",
                                              ![c].result = mcache[s].tree]
              /\ UNCHANGED <<mcache, mwork, mbuilds>>
    /\ UNCHANGED <<condVars, schemaVars, validateVars, doVars, chiVars>>

\* The builder adds the next node to the tree it is assembling.
InferBuildNode(c) ==
    /\ mcallers[c].pc = "building"
    /\ LET s == mcallers[c].shape IN
         /\ Len(mwork[s]) < TreeSize
         /\ mwork' = [mwork EXCEPT ![s] = Append(@, <<s, Len(@) + 1>>)]
    /\ UNCHANGED <<mcache, mcallers, mbuilds, condVars, schemaVars, validateVars, doVars, chiVars>>

\* The builder stores the completed tree in the cache and returns it.
InferPublish(c) ==
    /\ mcallers[c].pc = "building"
    /\ LET s == mcallers[c].shape IN
         /\ Len(mwork[s]) >= TreeSize
         /\ mcache' = [mcache EXCEPT ![s] = [state |-> "done", tree |-> mwork[s]]]
         /\ mcallers' = [mcallers EXCEPT ![c].pc = "returned", ![c].result = mwork[s]]
    /\ UNCHANGED <<mwork, mbuilds, condVars, schemaVars, validateVars, doVars, chiVars>>

\* A caller that waited for the build returns the cached tree.
InferWake(c) ==
    /\ mcallers[c].pc = "waiting"
    /\ LET s == mcallers[c].shape IN
         /\ mcache[s].state = "done"
         /\ mcallers' = [mcallers EXCEPT ![c].pc = "returned", ![c].result = mcache[s].tree]
    /\ UNCHANGED <<mcache, mwork, mbuilds, condVars, schemaVars, validateVars, doVars, chiVars>>

\* The caller is done with the tree; it may call infer again.
InferDone(c) ==
    /\ mcallers[c].pc = "returned"
    /\ mcallers' = [mcallers EXCEPT ![c].pc = "idle"]
    /\ UNCHANGED <<mcache, mwork, mbuilds, condVars, schemaVars, validateVars, doVars, chiVars>>

-----------------------------------------------------------------------------
(* humatest: testAPI.Do *)

\* The longest argument list given to Do.
MaxArgs == 3

\* The kinds of argument: an io.Reader; a string "Name: value"; the string
\* "host" with no colon; a struct, a map, a slice; a map json.Marshal
\* rejects; an int.
ArgKinds == {"reader", "header", "hostNoColon", "struct", "map", "slice", "badMap", "int"}

\* arg.(io.Reader) succeeds.
isReader(arg) == arg = "reader"

\* arg.(string) succeeds.
isString(arg) == arg \in {"header", "hostNoColon"}

\* reflect.Indirect(reflect.ValueOf(arg)).Kind()
reflectKind(arg) ==
    CASE arg \in {"map", "badMap"} -> "Map"
      [] arg = "slice"             -> "Slice"
      [] arg \in {"struct", "reader"} -> "Struct"
      [] isString(arg)             -> "String"
      [] arg = "int"               -> "Int"

\* json.Marshal(arg) returns an error.
marshalFails(arg) == arg = "badMap"

\* The first loop over args, from args[i] on, with the body b and isJSON
\* found so far: it stops at the first io.Reader.
RECURSIVE scanArgs(_, _, _, _)
scanArgs(args, i, b, isJSON) ==
    IF i > Len(args) THEN [panicked |-> FALSE, body |-> b, isJSON |-> isJSON]
    ELSE IF isReader(args[i]) THEN [panicked |-> FALSE, body |-> "reader", isJSON |-> isJSON]
    ELSE IF isString(args[i]) THEN scanArgs(args, i + 1, b, isJSON)
    ELSE IF reflectKind(args[i]) \in {"Struct", "Map", "Slice"}
         THEN IF marshalFails(args[i])
              THEN [panicked |-> TRUE, body |-> b, isJSON |-> isJSON]
              ELSE scanArgs(args, i + 1, "json", TRUE)
    ELSE [panicked |-> TRUE, body |-> b, isJSON |-> isJSON]

\* The second loop over args, from args[i] on, with n headers set so far:
\* parts[1] of a string with no colon is out of range.
RECURSIVE setHeaders(_, _, _)
setHeaders(args, i, n) ==
    IF i > Len(args) THEN [panicked |-> FALSE, headers |-> n]
    ELSE IF args[i] = "hostNoColon" THEN [panicked |-> TRUE, headers |-> n + 1]
    ELSE IF isString(args[i]) THEN setHeaders(args, i + 1, n + 1)
    ELSE setHeaders(args, i + 1, n)

DoPanic == [panicked |-> TRUE, body |-> "none", isJSON |-> FALSE, headers |-> 0]

\* The whole call: a panic, or the request served.
doOutcome(args) ==
    LET s == scanArgs(args, 1, "none", FALSE) IN
    IF s.panicked THEN DoPanic
    ELSE LET h == setHeaders(args, 1, 0) IN
         IF h.panicked THEN DoPanic
         ELSE [panicked |-> FALSE, body |-> s.body, isJSON |-> s.isJSON,
               headers |-> h.headers]

DoIdle ==
    /\ doArgs = <<>>
    /\ doResult = [panicked |-> FALSE, body |-> "none", isJSON |-> FALSE, headers |-> 0]
    /\ doPc = "idle"

-----------------------------------------------------------------------------
(* humachi: chiAdapter *)

\* The operations handled in one behaviour.
MaxOps == 3

\* The Group calls made in one behaviour.
MaxGroups == 2

\* The middlewares given to Group call g: each call is given its own.
Middlewares(g) == <<g>>

\* defaultHandler: the operation is registered on the router itself, under
\* no middleware.
defaultHandler(router, op) == Append(router, [op |-> op, mw |-> <<>>])

\* The tail of Group: router.Group with r.Use(middlewares...) and one
\* r.MethodFunc per buffered operation, in order.
registerGroup(router, handlers, g) ==
    router \o [i \in 1 .. Len(handlers) |-> [op |-> handlers[i], mw |-> Middlewares(g)]]

\* NewAdapter: route is defaultHandler, handlers is nil.
ChiIdle ==
    /\ chRoute = "default"
    /\ chHandlers = <<>>
    /\ chHandlersNil = TRUE
    /\ chRouter = <<>>
    /\ chStack = <<>>
    /\ chHandled = <<>>
    /\ chNextOp = 1
    /\ chNextGroup = 1
    /\ chPanicked = FALSE

ExtIdle == ValidateIdle /\ MemoIdle /\ DoIdle /\ ChiIdle

SchemaIdle ==
    /\ shape = <<>>
    /\ schema = emptySchema
    /\ spc = "idle"

Init == InitCond /\ SchemaIdle /\ ExtIdle

Next ==
    \/ \E method \in Methods : Resolve(method)
    \/ PreconditionFailed

Spec == Init /\ [][Next]_vars

CondIdle ==
    /\ p = [IfMatch |-> <<>>, IfNoneMatch |-> <<>>,
            IfModifiedSince |-> ZeroTime, IfUnmodifiedSince |-> ZeroTime,
            isWrite |-> FALSE]
    /\ etag = S_Empty
    /\ modified = ZeroTime
    /\ pc = "start"
    /\ ctxErrors = <<>>
    /\ ctxWritten = <<>>
    /\ ret = "none"
    /\ failedChecks = {}
    /\ sawWrite = FALSE

InitSchema ==
    /\ CondIdle
    /\ ExtIdle
    /\ shape \in SeqsUpTo(Fields, MaxFields)
    /\ schema = emptySchema
    /\ spc = "idle"

Infer ==
    /\ spc = "idle"
    /\ schema' = buildSchema(shape, emptySchema, 1)
    /\ spc' = "built"
    /\ UNCHANGED <<shape, condVars, extVars>>

NextSchema == Infer

SchemaSpec == InitSchema /\ [][NextSchema]_vars

-----------------------------------------------------------------------------
(* Schema inference: nullable *)

ScalarKinds == {"boolean", "integer", "number", "string"}

Kinds == ScalarKinds \cup {"array", "object"}

\* The kinds the fields of the structs explored are drawn from: two scalar
\* kinds and the two container kinds.
FieldKinds == {"integer", "string", "array", "object"}

\* The values of a field's `nullable` tag; "" when the field carries none.
NullableTags == {"", "true", "false"}

\* A declared field, as nullability reads it: the JSON kind of its type,
\* whether the type is a pointer, its json tag's omitempty, its `nullable` tag.
NullableFields ==
    [kind : FieldKinds, pointer : BOOLEAN, omitempty : BOOLEAN, nullable : NullableTags]

\* fieldNullable with every pointer nullable, whatever it points to.
fieldNullableAnyPointer(f) ==
    LET n1 == FALSE
        n2 == IF f.pointer /\ ~f.omitempty THEN TRUE ELSE n1
        n3 == IF f.nullable = "false" THEN FALSE ELSE n2
    IN  IF f.nullable = "true"
        THEN IF f.kind \in ScalarKinds THEN "nullable" ELSE "panic"
        ELSE IF n3 THEN "nullable" ELSE "plain"

\* 1. Start with no fields as nullable.
\* 2. A pointer to a scalar is nullable unless it has omitempty; a pointer to
\*    an array or object is not.
\* 3. nullable:"false": not nullable.
\* 4. nullable:"true": nullable for a scalar, a panic for an array or object.
fieldNullable(f) ==
    LET n1 == FALSE
        n2 == IF f.pointer /\ f.kind \in ScalarKinds /\ ~f.omitempty THEN TRUE ELSE n1
        n3 == IF f.nullable = "false" THEN FALSE ELSE n2
    IN  IF f.nullable = "true"
        THEN IF f.kind \in ScalarKinds THEN "nullable" ELSE "panic"
        ELSE IF n3 THEN "nullable" ELSE "plain"

emptyNullableSchema == [properties |-> <<>>, nullable |-> {}, panic |-> FALSE]

\* The schema of a struct, field by field from index i on; panic is set when
\* a field's resolution panics: the build is abandoned and no schema comes out.
RECURSIVE buildNullable(_, _, _)
buildNullable(fields, s, i) ==
    IF i > Len(fields)
    THEN s
    ELSE LET n == fieldNullable(fields[i]) IN
         IF n = "panic"
         THEN [emptyNullableSchema EXCEPT !.panic = TRUE]
         ELSE buildNullable(fields,
                            [properties |-> Append(s.properties, i),
                             nullable   |-> IF n = "nullable"
                                            THEN s.nullable \cup {i}
                                            ELSE s.nullable,
                             panic      |-> FALSE],
                            i + 1)

InitNullable ==
    /\ CondIdle
    /\ ExtIdle
    /\ shape \in UNION {[1 .. n -> NullableFields] : n \in 0 .. MaxFields}
    /\ schema = emptyNullableSchema
    /\ spc = "idle"

InferNullable ==
    /\ spc = "idle"
    /\ LET s == buildNullable(shape, emptyNullableSchema, 1) IN
         IF s.panic
         THEN /\ spc' = "panic"
              /\ schema' = schema
         ELSE /\ spc' = "built"
              /\ schema' = s
    /\ UNCHANGED <<shape, condVars, extVars>>

NextNullable == InferNullable

NullableSpec == InitNullable /\ [][NextNullable]_vars

InitValidate ==
    /\ CondIdle
    /\ SchemaIdle
    /\ MemoIdle
    /\ DoIdle
    /\ ChiIdle
    /\ \E declared \in DeclaredChoices, marker \in BOOLEAN :
          \E required \in SUBSET {declared[i].name : i \in 1 .. Len(declared)} :
              vschema = objectSchema(declared, required, marker)
    /\ vvalue \in Values
    /\ verrors = <<>>
    /\ vpc = "idle"

Validate ==
    /\ vpc = "idle"
    /\ verrors' = validate(vschema, vvalue, RootPath)
    /\ vpc' = "done"
    /\ UNCHANGED <<vschema, vvalue, condVars, schemaVars, memoVars, doVars, chiVars>>

NextValidate == Validate

ValidateSpec == InitValidate /\ [][NextValidate]_vars

InitMemo == CondIdle /\ SchemaIdle /\ ValidateIdle /\ MemoIdle /\ DoIdle /\ ChiIdle

NextMemo ==
    \/ \E c \in Callers, s \in Shapes : InferCall(c, s)
    \/ \E c \in Callers : InferLookup(c)
    \/ \E c \in Callers : InferBuildNode(c)
    \/ \E c \in Callers : InferPublish(c)
    \/ \E c \in Callers : InferWake(c)
    \/ \E c \in Callers : InferDone(c)

MemoSpec == InitMemo /\ [][NextMemo]_vars

InitDo == CondIdle /\ SchemaIdle /\ ValidateIdle /\ MemoIdle /\ DoIdle /\ ChiIdle

\* testAPI.Do(method, path, args...)
Do ==
    /\ doPc = "idle"
    /\ \E args \in SeqsUpTo(ArgKinds, MaxArgs) :
          /\ doArgs' = args
          /\ doResult' = doOutcome(args)
    /\ doPc' = "done"
    /\ UNCHANGED <<condVars, schemaVars, validateVars, memoVars, chiVars>>

NextDo == Do

DoSpec == InitDo /\ [][NextDo]_vars

InitChi == CondIdle /\ SchemaIdle /\ ValidateIdle /\ MemoIdle /\ DoIdle /\ ChiIdle

\* chiAdapter.Handle(op, handler): a.route(a, op, handler), which is
\* defaultHandler or the buffering closure Group has set.
Handle ==
    /\ chNextOp <= MaxOps
    /\ IF chRoute = "default"
       THEN /\ chRouter' = defaultHandler(chRouter, chNextOp)
            /\ UNCHANGED <<chHandlers, chHandlersNil>>
       ELSE /\ chHandlers' = Append(chHandlers, chNextOp)
            /\ chHandlersNil' = FALSE
            /\ UNCHANGED chRouter
    /\ chHandled' = Append(chHandled, [op |-> chNextOp, during |-> chStack])
    /\ chNextOp' = chNextOp + 1
    /\ UNCHANGED <<chRoute, chStack, chNextGroup, chPanicked>>
    /\ UNCHANGED <<condVars, schemaVars, validateVars, memoVars, doVars>>

\* chiAdapter.Group(fn, middlewares...), up to the call of fn: route is the
\* buffering closure.
Group ==
    /\ chNextGroup <= MaxGroups
    /\ chRoute' = "buffer"
    /\ chStack' = Append(chStack, chNextGroup)
    /\ chNextGroup' = chNextGroup + 1
    /\ UNCHANGED <<chHandlers, chHandlersNil, chRouter, chHandled, chNextOp, chPanicked>>
    /\ UNCHANGED <<condVars, schemaVars, validateVars, memoVars, doVars>>

\* The fn of the innermost Group call returns and Group runs to its end:
\* nothing more when handlers is nil, else the router group and the deferred
\* a.handlers[0:0]; then the deferred a.route = defaultHandler.
GroupFnReturn ==
    /\ chStack # <<>>
    /\ LET g == chStack[Len(chStack)] IN
         IF chHandlersNil
         THEN UNCHANGED <<chHandlers, chHandlersNil, chRouter>>
         ELSE /\ chRouter' = registerGroup(chRouter, chHandlers, g)
              /\ chHandlers' = <<>>
              /\ UNCHANGED chHandlersNil
    /\ chRoute' = "default"
    /\ chStack' = SubSeq(chStack, 1, Len(chStack) - 1)
    /\ UNCHANGED <<chHandled, chNextOp, chNextGroup, chPanicked>>
    /\ UNCHANGED <<condVars, schemaVars, validateVars, memoVars, doVars>>

\* fn panics and the panic unwinds through the k innermost Group calls
\* before it is recovered: of each, only the deferred
\* a.route = defaultHandler runs.
GroupFnPanic ==
    /\ chStack # <<>>
    /\ \E k \in 1 .. Len(chStack) :
          chStack' = SubSeq(chStack, 1, Len(chStack) - k)
    /\ chRoute' = "default"
    /\ chPanicked' = TRUE
    /\ UNCHANGED <<chHandlers, chHandlersNil, chRouter, chHandled, chNextOp, chNextGroup>>
    /\ UNCHANGED <<condVars, schemaVars, validateVars, memoVars, doVars>>

NextChi ==
    \/ Handle
    \/ Group
    \/ GroupFnReturn
    \/ GroupFnPanic

ChiSpec == InitChi /\ [][NextChi]_vars

-----------------------------------------------------------------------------
(* What the inputs violate, stated from the headers' definitions *)

Indices(s) == 1 .. Len(s)

\* Some listed If-None-Match value normalizes to the resource's tag, or one
\* normalizes to * and a resource exists.
NoneMatchViolated ==
    \E i \in Indices(p.IfNoneMatch) :
        \/ trimETag(p.IfNoneMatch[i]) = etag
        \/ (trimETag(p.IfNoneMatch[i]) = S_Star /\ etag # S_Empty)

\* A non-empty If-Match list none of whose values normalizes to the resource's tag.
MatchViolated ==
    /\ p.IfMatch # <<>>
    /\ \A i \in Indices(p.IfMatch) : trimETag(p.IfMatch[i]) # etag

\* If-Modified-Since is supplied and the resource is not strictly newer.
ModifiedSinceViolated ==
    /\ p.IfModifiedSince # ZeroTime
    /\ modified <= p.IfModifiedSince

\* If-Unmodified-Since is supplied and the resource is strictly newer.
UnmodifiedSinceViolated ==
    /\ p.IfUnmodifiedSince # ZeroTime
    /\ modified > p.IfUnmodifiedSince

ViolatedChecks ==
    (IF NoneMatchViolated THEN {H_INM} ELSE {})
    \cup (IF MatchViolated THEN {H_IM} ELSE {})
    \cup (IF ModifiedSinceViolated THEN {H_IMS} ELSE {})
    \cup (IF UnmodifiedSinceViolated THEN {H_IUS} ELSE {})

ErrorLocations == {ctxErrors[i].Location : i \in Indices(ctxErrors)}

Done == pc = "done"

-----------------------------------------------------------------------------
(* Claims *)

\* C1: the If-None-Match check fails (and the call returns true) if and only if
\* some listed value, after trimETag, equals the resource's etag, or some listed
\* value normalizes to * and the etag is non-empty; an empty list never fails.
C1_NoneMatch ==
    Done =>
        /\ (H_INM \in failedChecks) <=> NoneMatchViolated
        /\ (H_INM \in failedChecks) => ret = TRUE
        /\ p.IfNoneMatch = <<>> => H_INM \notin failedChecks

\* C1 witness: a listed * blocked a request on an existing resource.
C1_Witness ==
    /\ Done
    /\ p.IfNoneMatch = <<S_Star>>
    /\ etag = S_a
    /\ H_INM \in failedChecks
    /\ ret = TRUE

\* C2: the If-Match check fails if and only if the If-Match list is non-empty
\* and no listed value (normalized by trimETag) equals the resource's tag; an
\* empty list never fails, whatever the tag.
C2_Match ==
    Done =>
        /\ (H_IM \in failedChecks) <=> MatchViolated
        /\ p.IfMatch = <<>> => H_IM \notin failedChecks

\* C2 witness: a two-value If-Match list whose second value matches passed.
C2_Witness ==
    /\ Done
    /\ p.IfMatch = <<S_Star, S_Qa>>
    /\ etag = S_a
    /\ H_IM \notin failedChecks
    /\ ret = FALSE

\* C3: with If-Modified-Since supplied the check fails if and only if the
\* resource's modification time is not strictly after it (equal or earlier is
\* blocked); on a read the block carries zero errors; not supplied, it never fails.
C3_ModifiedSince ==
    Done =>
        /\ (H_IMS \in failedChecks) <=> ModifiedSinceViolated
        /\ (H_IMS \in failedChecks /\ ~p.isWrite) => (ret = TRUE /\ ctxErrors = <<>>)
        /\ p.IfModifiedSince = ZeroTime => H_IMS \notin failedChecks

\* C3 witness: a read with If-Modified-Since equal to the modification time is
\* blocked with no error.
C3_Witness ==
    /\ Done
    /\ ~p.isWrite
    /\ p.IfModifiedSince # ZeroTime
    /\ p.IfModifiedSince = modified
    /\ H_IMS \in failedChecks
    /\ ret = TRUE
    /\ ctxErrors = <<>>

\* C4: with If-Unmodified-Since supplied the check fails if and only if the
\* resource's modification time is strictly after it: modified at exactly that
\* time passes, modified later is blocked on a write; not supplied, it never fails.
C4_UnmodifiedSince ==
    Done =>
        /\ (H_IUS \in failedChecks) <=> UnmodifiedSinceViolated
        /\ (H_IUS \in failedChecks) => ret = TRUE
        /\ (p.IfUnmodifiedSince # ZeroTime /\ modified = p.IfUnmodifiedSince)
              => H_IUS \notin failedChecks
        /\ p.IfUnmodifiedSince = ZeroTime => H_IUS \notin failedChecks

\* C4 witness: a write to a resource modified after If-Unmodified-Since is
\* blocked with one error at that header.
C4_Witness ==
    /\ Done
    /\ p.isWrite
    /\ p.IfUnmodifiedSince = 1
    /\ modified = 2
    /\ ret = TRUE
    /\ ErrorLocations = {Location(H_IUS)}

\* C5 (as claimed): every entity-tag comparison is between tags normalized on
\* both sides, the resource's tag included.
C5_BothSidesNormalized ==
    Done =>
        /\ (H_INM \in failedChecks) <=>
              \E i \in Indices(p.IfNoneMatch) :
                  \/ trimETag(p.IfNoneMatch[i]) = trimETag(etag)
                  \/ (trimETag(p.IfNoneMatch[i]) = S_Star /\ etag # S_Empty)
        /\ (H_IM \in failedChecks) <=>
              /\ p.IfMatch # <<>>
              /\ \A i \in Indices(p.IfMatch) : trimETag(p.IfMatch[i]) # trimETag(etag)

\* C5 (amended): each supplied If-Match / If-None-Match value is normalized
\* (W/ prefix and surrounding quotes stripped) before it is compared, and the
\* resource's tag is compared as the caller passed it: the tag a equals the
\* header values "a", W/"a" and a, while a tag passed with its quotes, "a",
\* equals no header value.
C5_HeaderSideNormalized ==
    Done =>
        /\ (etag = S_a /\ \E i \in Indices(p.IfNoneMatch) :
                              p.IfNoneMatch[i] \in {S_a, S_Qa, S_WQa})
              => H_INM \in failedChecks
        /\ (etag = S_a /\ \E i \in Indices(p.IfMatch) :
                              p.IfMatch[i] \in {S_a, S_Qa, S_WQa})
              => H_IM \notin failedChecks
        /\ (etag = S_Qa /\ p.IfMatch # <<>>) => H_IM \in failedChecks
        /\ (etag = S_Qa /\ \A i \in Indices(p.IfNoneMatch) : p.IfNoneMatch[i] # S_Star)
              => H_INM \notin failedChecks

\* C5 witness: the weak, quoted header value W/"a" matched the tag a in an
\* If-Match list, and the quoted header value "a" matched it in If-None-Match.
C5_Witness ==
    /\ Done
    /\ etag = S_a
    /\ p.IfMatch = <<S_WQa>>
    /\ p.IfNoneMatch = <<S_Qa>>
    /\ H_IM \notin failedChecks
    /\ H_INM \in failedChecks

\* C6: the four checks are independent: for a write, the set of headers named
\* by the reported errors is exactly the set of checks the inputs violate.
C6_Independent ==
    (Done /\ p.isWrite) =>
        ErrorLocations = {Location(h) : h \in ViolatedChecks}

\* C6 witness: a write that violates all four checks and reports all four.
C6_Witness ==
    /\ Done
    /\ p.isWrite
    /\ Cardinality(ViolatedChecks) = 4
    /\ Cardinality(ErrorLocations) = 4

\* C7 (as claimed): for a write in which a check fails, the call reports
\* blocked and adds exactly one ErrorDetail per failed check.
C7_OneErrorPerCheck ==
    (Done /\ p.isWrite /\ ViolatedChecks # {}) =>
        /\ ret = TRUE
        /\ Len(ctxErrors) = Cardinality(ViolatedChecks)

\* C8: a read never adds an ErrorDetail; when a check fails on a read the
\* result is blocked with an empty error list.
C8_ReadNoErrors ==
    (Done /\ ~p.isWrite) =>
        /\ ctxErrors = <<>>
        /\ ViolatedChecks # {} => ret = TRUE

\* C8 witness: a read blocked by two checks at once, with no error.
C8_Witness ==
    /\ Done
    /\ ~p.isWrite
    /\ Cardinality(ViolatedChecks) >= 2
    /\ ret = TRUE
    /\ ctxErrors = <<>>

\* C9: the call returns true if and only if at least one check failed; when
\* none failed (in particular with no conditional header) it returns false,
\* adds no error and writes nothing to the context.
C9_ProceedIffNoFailure ==
    Done =>
        /\ ret = TRUE <=> ViolatedChecks # {}
        /\ ViolatedChecks = {} => (ret = FALSE /\ ctxErrors = <<>> /\ ctxWritten = <<>>)
        /\ ~HasConditionalParams(p) => (ret = FALSE /\ ctxErrors = <<>> /\ ctxWritten = <<>>)

\* C9 witness: a write with conditional headers, none violated, proceeds and
\* leaves the context untouched.
C9_Witness ==
    /\ Done
    /\ p.isWrite
    /\ p.IfMatch # <<>>
    /\ p.IfNoneMatch # <<>>
    /\ p.IfUnmodifiedSince # ZeroTime
    /\ ret = FALSE
    /\ ctxErrors = <<>>
    /\ ctxWritten = <<>>

\* C10: a field is required by default, optional with omitempty, optional with
\* required:"false", required with required:"true" (which wins over omitempty);
\* being a pointer has no effect; every declared, non-ignored field is in
\* exactly one of required and optional, and an ignored field in neither.
C10_RequiredChain ==
    spc = "built" =>
        /\ schema.required \cap Optional(schema) = {}
        /\ \A i \in Indices(shape) :
              IF shape[i].ignored
              THEN i \notin schema.required \cup Optional(schema)
              ELSE /\ i \in schema.required \cup Optional(schema)
                   /\ i \in schema.required <=>
                         \/ shape[i].required = "true"
                         \/ (shape[i].required = "" /\ ~shape[i].omitempty)

\* C10 witness: a struct with an omitempty field tagged required:"true", built
\* as required, and a pointer field with omitempty, built as optional.
C10_Witness ==
    /\ spc = "built"
    /\ Len(shape) = 2
    /\ shape[1] = [omitempty |-> TRUE, required |-> "true", pointer |-> FALSE,
                   ignored |-> FALSE]
    /\ shape[2] = [omitempty |-> TRUE, required |-> "", pointer |-> TRUE,
                   ignored |-> FALSE]
    /\ schema.required = {1}
    /\ Optional(schema) = {2}

\* C16: when any check fails, exactly one response outcome is written to the
\* context: a 412 Precondition Failed error for a write, a bare 304 Not
\* Modified status for a read; never both, never the other's.
C16_OneOutcome ==
    (Done /\ ViolatedChecks # {}) =>
        /\ Len(ctxWritten) = 1
        /\ p.isWrite => ctxWritten[1] = [op |-> "WriteError", status |-> 412,
                                         msg |-> "Precondition Failed"]
        /\ ~p.isWrite => ctxWritten[1] = [op |-> "WriteHeader", status |-> 304]

\* C16 witness: a read blocked by If-None-Match alone wrote the bare 304.
C16_Witness ==
    /\ Done
    /\ ~p.isWrite
    /\ ViolatedChecks = {H_INM}
    /\ ctxWritten = <<[op |-> "WriteHeader", status |-> 304]>>

\* C17 (as claimed): with an empty etag (no existing resource) the
\* If-None-Match check does not fail, whatever values the header lists.
C17_NoResourceNeverBlocks ==
    (Done /\ etag = S_Empty) => H_INM \notin failedChecks

\* C19: Resolve sets isWrite exactly for POST, PUT, PATCH and DELETE, leaves it
\* as it is for any other method and changes no other field of Params: after
\* any sequence of Resolve calls isWrite is true if and only if one of the
\* calls had a write method.
C19_ResolveFrame ==
    /\ [](p.isWrite <=> sawWrite)
    /\ [][/\ p'.IfMatch = p.IfMatch
          /\ p'.IfNoneMatch = p.IfNoneMatch
          /\ p'.IfModifiedSince = p.IfModifiedSince
          /\ p'.IfUnmodifiedSince = p.IfUnmodifiedSince
          /\ (p.isWrite => p'.isWrite)]_vars

\* C19 witness: Resolve ran with a write method on a Params carrying headers,
\* before PreconditionFailed was called.
C19_Witness ==
    /\ pc = "start"
    /\ sawWrite
    /\ p.isWrite
    /\ p.IfNoneMatch # <<>>
    /\ p.IfModifiedSince # ZeroTime

\* C11: a field is not nullable by default; a pointer to a boolean, integer,
\* number or string is nullable unless it has omitempty; a pointer to an array
\* or object is never nullable of itself; nullable:"false" forces not nullable;
\* nullable:"true" forces nullable on a scalar and aborts the build on an array
\* or object. So no array or object field of a built schema is nullable.
C11_NullableChain ==
    LET Aborts(f) == f.nullable = "true" /\ f.kind \in {"array", "object"} IN
    /\ spc = "panic" =>
          /\ \E i \in Indices(shape) : Aborts(shape[i])
          /\ schema = emptyNullableSchema
    /\ spc = "built" =>
          /\ Len(schema.properties) = Len(shape)
          /\ \A i \in Indices(shape) :
                /\ ~Aborts(shape[i])
                /\ shape[i].kind \in {"array", "object"} => i \notin schema.nullable
                /\ shape[i].kind \in ScalarKinds =>
                      (i \in schema.nullable <=>
                          \/ shape[i].nullable = "true"
                          \/ /\ shape[i].nullable = ""
                             /\ shape[i].pointer
                             /\ ~shape[i].omitempty)

\* C11 witness: a struct with a *string field, built nullable, and a pointer
\* to an object, built not nullable.
C11_Witness ==
    /\ spc = "built"
    /\ Len(shape) = 2
    /\ shape[1] = [kind |-> "string", pointer |-> TRUE, omitempty |-> FALSE,
                   nullable |-> ""]
    /\ shape[2] = [kind |-> "object", pointer |-> TRUE, omitempty |-> FALSE,
                   nullable |-> ""]
    /\ schema.nullable = {1}

UnknownFieldErrorsAt(errors, loc) ==
    {i \in Indices(errors) :
        errors[i].Message = "unknown-field" /\ errors[i].Location = loc}

EndsWith(s, suffix) ==
    /\ Len(s) >= Len(suffix)
    /\ SubSeq(s, Len(s) - Len(suffix) + 1, Len(s)) = suffix

UndeclaredKeys == DOMAIN vvalue.fields \ PropertyNames(vschema)

\* The value's declared keys hold the declared kinds and no required one is absent.
DeclaredPartValid ==
    /\ vschema.required \subseteq DOMAIN vvalue.fields
    /\ \A i \in Indices(vschema.properties) :
          vschema.properties[i].name \in DOMAIN vvalue.fields =>
              vvalue.fields[vschema.properties[i].name] = vschema.properties[i].kind

\* C12: against an object schema with additionalProperties false (the
\* default), each key x of the value that the schema does not declare yields
\* exactly one unknown-field error, located at the key's path, which ends in
\* .x; the same struct carrying the additionalProperties:"true" marker yields
\* no unknown-field error for the same value: zero errors when the undeclared
\* keys are all that is wrong with it.
C12_UnknownField ==
    (vpc = "done" /\ vvalue.kind = "object") =>
        /\ ~vschema.additionalProperties =>
              /\ \A x \in UndeclaredKeys :
                    /\ Cardinality(UnknownFieldErrorsAt(verrors,
                                       RootPath \o <<".">> \o x)) = 1
                    /\ Cardinality({i \in Indices(verrors) :
                                       /\ verrors[i].Message = "unknown-field"
                                       /\ verrors[i].Value = vvalue.fields[x]
                                       /\ EndsWith(verrors[i].Location, <<".">> \o x)}) = 1
              /\ Cardinality({i \in Indices(verrors) :
                                 verrors[i].Message = "unknown-field"})
                    = Cardinality(UndeclaredKeys)
        /\ vschema.additionalProperties =>
              /\ \A i \in Indices(verrors) : verrors[i].Message # "unknown-field"
              /\ DeclaredPartValid => verrors = <<>>

\* C12 witness: a struct declaring a, validated strictly against a value with
\* a and the undeclared key x, returned the one error at body.x.
C12_Witness ==
    /\ vpc = "done"
    /\ ~vschema.additionalProperties
    /\ vvalue.kind = "object"
    /\ PropertyNames(vschema) = {<<"a">>}
    /\ DOMAIN vvalue.fields = {<<"a">>, <<"x">>}
    /\ vvalue.fields[<<"a">>] = "string"
    /\ Len(verrors) = 1
    /\ verrors[1].Message = "unknown-field"
    /\ verrors[1].Location = <<"b", "o", "d", "y", ".", "x">>

\* C13: inference is build-once-on-first-use per shape: however many callers
\* call infer on a shape at the same time, at most one build of it is ever
\* started, every caller that returns holds the same, complete tree, no
\* partly built tree is in the cache or in a caller's hands, and once the
\* tree is cached no further build starts.
C13_BuildOnce ==
    /\ \A s \in Shapes :
          /\ mbuilds[s] <= 1
          /\ mcache[s].state = "done" =>
                (mbuilds[s] = 1 /\ mcache[s].tree = CompleteTree(s))
          /\ mcache[s].state # "done" => mcache[s].tree = <<>>
    /\ \A c \in Callers :
          mcallers[c].pc = "returned" =>
              mcallers[c].result = CompleteTree(mcallers[c].shape)
    /\ \A c, d \in Callers :
          (/\ mcallers[c].pc = "returned"
           /\ mcallers[d].pc = "returned"
           /\ mcallers[c].shape = mcallers[d].shape)
              => mcallers[c].result = mcallers[d].result

\* C13 witness: two callers raced on ShapeA, one built while the other
\* waited, and both hold the tree of the single build.
C13_Witness ==
    /\ \A c \in {1, 2} :
          /\ mcallers[c].pc = "returned"
          /\ mcallers[c].shape = "ShapeA"
          /\ mcallers[c].result = CompleteTree("ShapeA")
    /\ mbuilds["ShapeA"] = 1
    /\ mbuilds["ShapeB"] = 0

\* Some argument of the Do call is of a kind Do does not accept.
HasUnsupportedArg == \E i \in Indices(doArgs) : doArgs[i] = "int"

\* C14: whenever the argument list of Do holds an argument that is neither a
\* string, an io.Reader nor a slice, map or struct, Do panics, wherever that
\* argument stands.
C14_UnsupportedArgPanics ==
    (doPc = "done" /\ HasUnsupportedArg) => doResult.panicked

\* The places on the router where operation op is registered.
Registrations(op) == {j \in Indices(chRouter) : chRouter[j].op = op}

\* The Handle calls made while the fn of some Group call was executing.
HandledInGroup == {i \in Indices(chHandled) : chHandled[i].during # <<>>}

\* The innermost Group call executing when Handle call i was made.
GroupOf(i) == chHandled[i].during[Len(chHandled[i].during)]

\* C15: once every Group call has ended and no fn has panicked, each
\* operation handled during a Group call's fn is registered exactly once,
\* under exactly that call's middlewares, and operations of the same Group
\* call are registered in the order they were handled.
C15_GroupRegistersItsOperations ==
    (chStack = <<>> /\ ~chPanicked) =>
        /\ \A i \in HandledInGroup :
              /\ Cardinality(Registrations(chHandled[i].op)) = 1
              /\ \A j \in Registrations(chHandled[i].op) :
                    chRouter[j].mw = Middlewares(GroupOf(i))
        /\ \A i, k \in HandledInGroup :
              (i < k /\ GroupOf(i) = GroupOf(k)) =>
                  \A j \in Registrations(chHandled[i].op),
                     l \in Registrations(chHandled[k].op) : j < l

\* C18: whenever no Group call is executing, route is defaultHandler and no
\* operation is buffered in handlers.
C18_IdleBetweenGroups ==
    chStack = <<>> => (chRoute = "default" /\ chHandlers = <<>>)

====
